---- MODULE Spec2Model ----
(***************************************************************************)
(* Model of the PLM single-page frontend (rdeputy/plm, frontend/src).      *)
(*                                                                         *)
(* Part 1: routing and authentication gate.                                *)
(*   App.tsx declares the route table; every route except /login is a     *)
(*   child of the "/" route whose element is <ProtectedRoute><Layout/>.   *)
(*   ProtectedRoute reads {user, loading} from the AuthContext and either  *)
(*   shows a Loading indicator, renders <Navigate to="/login" replace>,    *)
(*   or renders its children.                                              *)
(*                                                                         *)
(* Paths are sequences of segments: "/" is <<>>, "/parts/r1/edit" is       *)
(* <<"parts","r1","edit">>.  An optional value (location.state, the nav    *)
(* request of a view) is a sequence of length 0 or 1.                      *)
(***************************************************************************)
EXTENDS Naturals, Integers, Sequences, FiniteSets, TLC

\* ---------------------------------------------------------------------
\* Bounds
\* ---------------------------------------------------------------------
\* Longest browser history stack explored.
MaxHist == 2

\* Record ids that appear in URLs, and the accounts that can sign in.
Ids == {"r1"}
Users == {"u1"}

\* AuthContext's user when nobody is signed in (null).
NoUser == "null"

\* ---------------------------------------------------------------------
\* Route table (App.tsx)
\* ---------------------------------------------------------------------
\* Entities with list, new, detail and edit routes.
CrudEntities == {"parts", "boms", "documents", "changes", "projects", "requirements"}

\* Entities with a list route only.
ListEntities == {"suppliers", "compliance", "costing"}

\* Page components mounted by the routes of an entity.
ListPage(e) == "List:" \o e
DetailPage(e) == "Detail:" \o e
FormPage(e) == "Form:" \o e

\* The top-level /login route: it is outside the ProtectedRoute element.
LoginRoute == [pattern |-> <<"login">>, element |-> "Login", protected |-> FALSE]

\* The children of the "/" route, whose element is <ProtectedRoute><Layout/></ProtectedRoute>.
\* The index child renders <Navigate to="/dashboard" replace/>.
LayoutRoutes ==
    {[pattern |-> <<>>, element |-> "IndexRedirect", protected |-> TRUE],
     [pattern |-> <<"dashboard">>, element |-> "Dashboard", protected |-> TRUE]}
    \cup {[pattern |-> <<e>>, element |-> ListPage(e), protected |-> TRUE] : e \in CrudEntities}
    \cup {[pattern |-> <<e, "new">>, element |-> FormPage(e), protected |-> TRUE] : e \in CrudEntities}
    \cup {[pattern |-> <<e, ":id">>, element |-> DetailPage(e), protected |-> TRUE] : e \in CrudEntities}
    \cup {[pattern |-> <<e, ":id", "edit">>, element |-> FormPage(e), protected |-> TRUE] : e \in CrudEntities}
    \cup {[pattern |-> <<e>>, element |-> ListPage(e), protected |-> TRUE] : e \in ListEntities}
    \cup {[pattern |-> <<"bulletins">>, element |-> ListPage("bulletins"), protected |-> TRUE],
          [pattern |-> <<"bulletins", ":id">>, element |-> DetailPage("bulletins"), protected |-> TRUE]}

Routes == {LoginRoute} \cup LayoutRoutes

\* ---------------------------------------------------------------------
\* Route matching (react-router <Routes>)
\* ---------------------------------------------------------------------
\* A pattern matches a path of the same length whose segments agree with
\* the pattern's static segments; ":id" matches any segment.
PatternMatches(pattern, path) ==
    /\ Len(pattern) = Len(path)
    /\ \A i \in 1..Len(pattern) : pattern[i] = ":id" \/ pattern[i] = path[i]

\* Rank of a pattern: a static segment outranks a dynamic one.
StaticCount(pattern) == Cardinality({i \in 1..Len(pattern) : pattern[i] # ":id"})

\* The best-ranked matching route, as a sequence of length 0 (no match) or 1.
MatchRoute(path) ==
    LET ms == {r \in Routes : PatternMatches(r.pattern, path)}
    IN  IF ms = {} THEN <<>>
        ELSE <<CHOOSE r \in ms : \A s \in ms : StaticCount(r.pattern) >= StaticCount(s.pattern)>>

\* ---------------------------------------------------------------------
\* Locations and views
\* ---------------------------------------------------------------------
\* A history entry: pathname plus location.state ({from: location} or null).
Loc(path, st) == [pathname |-> path, state |-> st]

\* What the component tree shows.  shell: the frame around the page
\* ("Loading" indicator, "Layout", or "None"); page: the page element inside
\* it; nav: a pending <Navigate> request (length 0 or 1).
View(shell, page, nav) == [shell |-> shell, page |-> page, nav |-> nav]

NavRequest(to, st, replace) == [to |-> to, state |-> st, replace |-> replace]

\* Layout with the matched child element in its <Outlet/>.
LayoutWith(element) ==
    IF element = "IndexRedirect"
    THEN View("Layout", "None", <<NavRequest(<<"dashboard">>, <<>>, TRUE)>>)
    ELSE View("Layout", element, <<>>)

\* ProtectedRoute, with the loading test left out (a plausible slip).
ProtectedRouteNoLoading(authLoading, authUser, location, children) ==
    IF authUser = NoUser
    THEN View("None", "None", <<NavRequest(<<"login">>, <<location>>, TRUE)>>)
    ELSE children

\* ProtectedRoute({children}).
ProtectedRoute(authLoading, authUser, location, children) ==
    IF authLoading
    THEN View("Loading", "None", <<>>)
    ELSE IF authUser = NoUser
    THEN View("None", "None", <<NavRequest(<<"login">>, <<location>>, TRUE)>>)
    ELSE children

\* URLs a browser can be pointed at: one instance of every route pattern,
\* the two link targets that are no route pattern's instance, and a path
\* no route matches.
Instantiate(pattern, id) == [i \in 1..Len(pattern) |-> IF pattern[i] = ":id" THEN id ELSE pattern[i]]

Urls ==
    {Instantiate(r.pattern, id) : r \in Routes, id \in Ids}
    \cup {<<"bulletins", "new">>, <<"nope">>}
    \cup {<<"parts", id, "revise">> : id \in Ids}

\* URLs loaded by a later full page load: the root, a nested protected
\* route, the login page and a path no route matches.
ReloadUrls == {<<>>, <<"parts", "r1", "edit">>, <<"login">>, <<"nope">>}

\* The match of every URL, computed once.
RouteOf == [p \in Urls |-> MatchRoute(p)]

\* <Routes> of App for the current location.
Render(authLoading, authUser, location) ==
    LET m == RouteOf[location.pathname]
    IN  IF m = <<>> THEN View("None", "None", <<>>)
        ELSE IF ~m[1].protected THEN View("None", m[1].element, <<>>)
        ELSE ProtectedRoute(authLoading, authUser, location, LayoutWith(m[1].element))

\* ---------------------------------------------------------------------
\* State
\* ---------------------------------------------------------------------
VARIABLES
    loading,    \* AuthContext.loading
    user,       \* AuthContext.user (NoUser when signed out)
    entries,    \* browser history stack of locations
    index,      \* position of the current entry in the stack
    badge,      \* last StatusBadge render: its props and output (length 0 or 1)
    textInput,  \* last TextInput render: its props and output (length 0 or 1)
    fpEntity,   \* the entity whose pages are on screen ("parts", "boms", ...)
    recStatus,  \* status of record r1 of that entity in the backend
    fpPage,     \* page on screen: "list", "detail", "new" or "edit"
    cache,      \* data of the query [entity, id]: <<>> or <<status fetched>>
    qState,     \* that query: "idle", "fetching" or "error"
    form,       \* mounted entity form: <<>> or <<[formData, errors]>>
    pending,    \* mutations of the mounted component whose status is pending
    inFlight,   \* requests sent by the mounted component and not settled
    orphans,    \* unsettled requests of components that have unmounted
    effects,    \* what a mutation's callbacks did in the last step, in order
    uploading,  \* CadFileUpload state: <<>> (null) or <<fileType>>
    uploadError,    \* CadFileUpload error state: <<>> (null) or <<message>>
    uploads,    \* file types of the uploads in flight, in the order sent
    backendParts,   \* number of parts held by the backend
    partsQuery, \* Dashboard ['parts','count'] query: its status and data
    changeView, \* last ChangeDetail render: <<>> or <<its inputs and output>>
    session,    \* Supabase session: <<>> (null) or <<[access_token]>>
    apiKey,     \* import.meta.env.VITE_API_KEY || ''
    sent        \* last request as sent: <<>> or <<[call, headers]>>

routerVars == <<loading, user, entries, index>>

renderVars == <<badge, textInput>>

formVars == <<fpEntity, recStatus, fpPage, cache, qState, form, pending,
              inFlight, orphans, effects>>

uploadVars == <<uploading, uploadError, uploads>>

viewVars == <<backendParts, partsQuery, changeView>>

apiVars == <<session, apiKey, sent>>

vars == <<routerVars, renderVars, formVars, uploadVars, viewVars, apiVars>>

\* What each area's actions leave alone.
nonRouterVars == <<renderVars, formVars, uploadVars, viewVars, apiVars>>

nonRenderVars == <<routerVars, formVars, uploadVars, viewVars, apiVars>>

nonFormVars == <<routerVars, renderVars, uploadVars, viewVars, apiVars>>

nonUploadVars == <<routerVars, renderVars, formVars, viewVars, apiVars>>

nonViewVars == <<routerVars, renderVars, formVars, uploadVars, apiVars>>

nonApiVars == <<routerVars, renderVars, formVars, uploadVars, viewVars>>

\* Each area before anything has happened in it.
RouterIdle ==
    /\ loading = TRUE
    /\ user = NoUser
    /\ entries = <<Loc(<<>>, <<>>)>>
    /\ index = 1

RenderIdle ==
    /\ badge = <<>>
    /\ textInput = <<>>

FormIdle ==
    /\ fpEntity = "parts"
    /\ recStatus = "draft"
    /\ fpPage = "list"
    /\ cache = <<>>
    /\ qState = "idle"
    /\ form = <<>>
    /\ pending = {}
    /\ inFlight = <<>>
    /\ orphans = <<>>
    /\ effects = <<>>

UploadIdle ==
    /\ uploading = <<>>
    /\ uploadError = <<>>
    /\ uploads = <<>>

ViewIdle ==
    /\ backendParts = 0
    /\ partsQuery = [status |-> "pending", data |-> <<>>]
    /\ changeView = <<>>

ApiIdle ==
    /\ session = <<>>
    /\ apiKey = ""
    /\ sent = <<>>

\* The sidebar items of Layout with the hrefs swapped between two items
\* (a plausible slip in the navigation table).
navigationSwapped ==
    {[name |-> "Parts", href |-> <<"boms">>],
     [name |-> "BOMs", href |-> <<"parts">>],
     [name |-> "Documents", href |-> <<"documents">>],
     [name |-> "Changes", href |-> <<"changes">>],
     [name |-> "Projects", href |-> <<"projects">>],
     [name |-> "Requirements", href |-> <<"requirements">>],
     [name |-> "Suppliers", href |-> <<"suppliers">>],
     [name |-> "Compliance", href |-> <<"compliance">>],
     [name |-> "Costing", href |-> <<"costing">>],
     [name |-> "Bulletins", href |-> <<"bulletins">>]}

\* The sidebar items of Layout: const navigation.
navigation ==
    {[name |-> "Parts", href |-> <<"parts">>],
     [name |-> "BOMs", href |-> <<"boms">>],
     [name |-> "Documents", href |-> <<"documents">>],
     [name |-> "Changes", href |-> <<"changes">>],
     [name |-> "Projects", href |-> <<"projects">>],
     [name |-> "Requirements", href |-> <<"requirements">>],
     [name |-> "Suppliers", href |-> <<"suppliers">>],
     [name |-> "Compliance", href |-> <<"compliance">>],
     [name |-> "Costing", href |-> <<"costing">>],
     [name |-> "Bulletins", href |-> <<"bulletins">>]}

\* The title link of the sidebar: <Link to="/">PLM System</Link>.
TitleLink == [name |-> "PLM System", href |-> <<>>]

\* Link targets of the Layout sidebar (navigation[].href and the title link).
LayoutLinks == {item.href : item \in navigation \cup {TitleLink}}

current == entries[index]

CurrentView == Render(loading, user, current)

\* history.push: drop the forward entries, append, move to the new entry.
Push(loc) ==
    /\ index < MaxHist
    /\ entries' = Append(SubSeq(entries, 1, index), loc)
    /\ index' = index + 1

\* history.replace: overwrite the current entry.
Replace(loc) ==
    /\ entries' = [entries EXCEPT ![index] = loc]
    /\ index' = index

\* The page is loaded at some URL; the AuthProvider has not resolved yet.
Init ==
    /\ loading = TRUE
    /\ user = NoUser
    /\ \E p \in Urls : entries = <<Loc(p, <<>>)>>
    /\ index = 1
    /\ RenderIdle /\ FormIdle /\ UploadIdle /\ ViewIdle /\ ApiIdle

\* AuthProvider finishes reading the session: a user or none.
AuthResolved ==
    /\ loading
    /\ loading' = FALSE
    /\ \E u \in Users \cup {NoUser} : user' = u
    /\ UNCHANGED <<entries, index>>
    /\ UNCHANGED nonRouterVars

\* Auth state change to a signed-in user.
SignIn ==
    /\ ~loading
    /\ user = NoUser
    /\ \E u \in Users : user' = u
    /\ UNCHANGED <<loading, entries, index>>
    /\ UNCHANGED nonRouterVars

\* Auth state change to signed out.
SignOut ==
    /\ ~loading
    /\ user # NoUser
    /\ user' = NoUser
    /\ UNCHANGED <<loading, entries, index>>
    /\ UNCHANGED nonRouterVars

\* Full page load of a URL (page.goto, address bar): the app restarts.
Goto ==
    /\ \E p \in ReloadUrls : Push(Loc(p, <<>>))
    /\ loading' = TRUE
    /\ user' = NoUser
    /\ UNCHANGED nonRouterVars

\* Click on one sidebar <Link>: only possible while the Layout is on screen.
ClickLink(item) ==
    /\ CurrentView.shell = "Layout"
    /\ Push(Loc(item.href, <<>>))
    /\ UNCHANGED <<loading, user>>
    /\ UNCHANGED nonRouterVars

\* Click on any sidebar <Link>.
LinkClick == \E item \in navigation \cup {TitleLink} : ClickLink(item)

\* Effect of a rendered <Navigate to state replace/>.
NavigateEffect ==
    /\ CurrentView.nav # <<>>
    /\ LET n == CurrentView.nav[1]
       IN  IF n.replace THEN Replace(Loc(n.to, n.state)) ELSE Push(Loc(n.to, n.state))
    /\ UNCHANGED <<loading, user>>
    /\ UNCHANGED nonRouterVars

\* Browser back button.
Back ==
    /\ index > 1
    /\ index' = index - 1
    /\ UNCHANGED <<loading, user, entries>>
    /\ UNCHANGED nonRouterVars

Next ==
    \/ AuthResolved
    \/ SignIn
    \/ SignOut
    \/ Goto
    \/ LinkClick
    \/ NavigateEffect
    \/ Back

Spec == Init /\ [][Next]_vars

\* ---------------------------------------------------------------------
\* Routing / authentication properties
\* ---------------------------------------------------------------------
TypeOK ==
    /\ loading \in BOOLEAN
    /\ user \in Users \cup {NoUser}
    /\ index \in 1..Len(entries)
    /\ Len(entries) <= MaxHist

\* The current URL is matched by a route other than /login.
OnAppRoute ==
    /\ RouteOf[current.pathname] # <<>>
    /\ current.pathname # <<"login">>

\* What is on screen in the current state, for C9.
C9_Screen ==
    /\ (OnAppRoute /\ loading) => CurrentView = View("Loading", "None", <<>>)
    /\ (OnAppRoute /\ ~loading /\ user = NoUser) =>
          CurrentView = View("None", "None", <<NavRequest(<<"login">>, <<current>>, TRUE)>>)
    /\ CurrentView.shell = "Layout" => (~loading /\ user # NoUser)
    /\ CurrentView.page \notin {"None", "Login"} => (~loading /\ user # NoUser)

\* The redirect of a signed-out visitor, as a step, for C9.
C9_Redirect ==
    (OnAppRoute /\ ~loading /\ user = NoUser /\ entries' # entries /\ loading' = loading) =>
        /\ Len(entries') = Len(entries)
        /\ index' = index
        /\ entries' = [entries EXCEPT ![index] = Loc(<<"login">>, <<current>>)]

\* C9: every route except /login is rendered inside ProtectedRoute: while
\* authentication is loading only the Loading indicator is shown; once
\* loading is finished and there is no user the app redirects, replacing the
\* history entry, to /login with the attempted location as state.from; the
\* Layout and every page under it are rendered only while a user is present.
C9_ProtectedRoutes == [][C9_Redirect]_vars /\ []C9_Screen

\* C9 witness: a signed-out visitor of /parts/r1/edit has been redirected to
\* /login and the attempted location travels as state.from.
C9_Witness ==
    /\ ~loading
    /\ user = NoUser
    /\ current = Loc(<<"login">>, <<Loc(<<"parts", "r1", "edit">>, <<>>)>>)
    /\ Len(entries) = 1

\* ---------------------------------------------------------------------
\* Sidebar navigation
\* ---------------------------------------------------------------------
\* The URL of a location contains the word as a path segment.
UrlContains(loc, word) == \E i \in 1..Len(loc.pathname) : loc.pathname[i] = word

\* The links the navigation tests click, with the word expected in the URL.
TestedLinks == {<<"Parts", "parts">>, <<"Documents", "documents">>, <<"Projects", "projects">>}

\* A click on the sidebar item of that name brings the browser to a URL
\* containing the word.
C17_Step ==
    \A t \in TestedLinks : \A item \in navigation :
        (item.name = t[1] /\ ClickLink(item)) => UrlContains(current', t[2])

\* C17: starting from a page load of '/', clicking the navigation link named
\* Parts, Documents or Projects brings the browser to a URL that contains
\* 'parts', 'documents' or 'projects' respectively.
C17_NavLinks == [][C17_Step]_vars

\* C17 witness: '/' was loaded, the index route replaced it by /dashboard,
\* and a click on a sidebar link has pushed /parts, which the Layout shows.
C17_Witness ==
    /\ entries = <<Loc(<<"dashboard">>, <<>>), Loc(<<"parts">>, <<>>)>>
    /\ index = 2
    /\ CurrentView = View("Layout", ListPage("parts"), <<>>)

\* ---------------------------------------------------------------------
\* Part 2: presentation components (StatusBadge, TextInput)
\*
\* A string the code inspects character by character is a sequence of
\* one-character strings; a class attribute is a sequence of class names.
\* ---------------------------------------------------------------------
\* Longest generated status string.
MaxStatusLen == 3

\* Characters of the generated status strings.
StatusAlphabet == {"a", "_", " "}

\* The fallback of StatusBadge: colors[status] || 'bg-gray-100 text-gray-800'.
DefaultClass == "bg-gray-100 text-gray-800"

\* const defaultColors, as key/value pairs.
defaultColorEntries ==
    {<<<<"d", "r", "a", "f", "t">>, "bg-gray-100 text-gray-800">>,
     <<<<"i", "n", "_", "r", "e", "v", "i", "e", "w">>, "bg-yellow-100 text-yellow-800">>,
     <<<<"r", "e", "l", "e", "a", "s", "e", "d">>, "bg-green-100 text-green-800">>,
     <<<<"a", "p", "p", "r", "o", "v", "e", "d">>, "bg-green-100 text-green-800">>,
     <<<<"a", "c", "t", "i", "v", "e">>, "bg-green-100 text-green-800">>,
     <<<<"o", "b", "s", "o", "l", "e", "t", "e">>, "bg-red-100 text-red-800">>,
     <<<<"r", "e", "j", "e", "c", "t", "e", "d">>, "bg-red-100 text-red-800">>,
     <<<<"c", "a", "n", "c", "e", "l", "l", "e", "d">>, "bg-red-100 text-red-800">>,
     <<<<"p", "e", "n", "d", "i", "n", "g">>, "bg-yellow-100 text-yellow-800">>,
     <<<<"s", "u", "b", "m", "i", "t", "t", "e", "d">>, "bg-blue-100 text-blue-800">>,
     <<<<"i", "m", "p", "l", "e", "m", "e", "n", "t", "e", "d">>, "bg-purple-100 text-purple-800">>,
     <<<<"c", "l", "o", "s", "e", "d">>, "bg-gray-100 text-gray-800">>}

\* An object literal built from key/value pairs: its own properties.
ObjectOf(pairs) == [k \in {e[1] : e \in pairs} |-> (CHOOSE e \in pairs : e[1] = k)[2]]

defaultColors == ObjectOf(defaultColorEntries)

\* The custom colour map of the component test.
customColors == ObjectOf({<<<<"c", "u", "s", "t", "o", "m">>, "bg-pink-100 text-pink-800">>})

\* Property names every object literal inherits from Object.prototype.
ObjectPrototypeKeys ==
    {<<"c", "o", "n", "s", "t", "r", "u", "c", "t", "o", "r">>,
     <<"t", "o", "S", "t", "r", "i", "n", "g">>,
     <<"v", "a", "l", "u", "e", "O", "f">>}

\* What an inherited member turns into inside a template literal.
InheritedMember == "function () { [native code] }"

\* obj[key]: an own property, else an inherited one, else undefined (<<>>).
Get(obj, key) ==
    IF key \in DOMAIN obj THEN <<obj[key]>>
    ELSE IF key \in ObjectPrototypeKeys THEN <<InheritedMember>>
    ELSE <<>>

\* v || fallback.
OrElse(v, fallback) == IF v # <<>> /\ v[1] # "" THEN v[1] ELSE fallback

\* str.replace('_', ' '): only the first underscore (the g flag left out).
RECURSIVE ReplaceFirstUnderscore(_)
ReplaceFirstUnderscore(str) ==
    IF str = <<>> THEN <<>>
    ELSE IF Head(str) = "_" THEN <<" ">> \o Tail(str)
    ELSE <<Head(str)>> \o ReplaceFirstUnderscore(Tail(str))

\* str.replace(/_/g, ' ').
RECURSIVE ReplaceUnderscores(_)
ReplaceUnderscores(str) ==
    IF str = <<>> THEN <<>>
    ELSE <<IF Head(str) = "_" THEN " " ELSE Head(str)>> \o ReplaceUnderscores(Tail(str))

\* StatusBadge({status, colorMap}): the props with the rendered text and
\* colour class.  colorMap is <<>> when the prop is not supplied.
StatusBadge(status, colorMap) ==
    LET colors == IF colorMap # <<>> THEN colorMap[1] ELSE defaultColors
        colorClass == OrElse(Get(colors, status), DefaultClass)
    IN  [status |-> status,
         colorMap |-> colorMap,
         baseClass |-> "px-2 py-1 text-xs font-medium rounded",
         colorClass |-> colorClass,
         text |-> ReplaceUnderscores(status)]

\* All strings over the alphabet of length at most n.
RECURSIVE StringsUpTo(_)
StringsUpTo(n) ==
    IF n = 0 THEN {<<>>}
    ELSE LET shorter == StringsUpTo(n - 1)
         IN  shorter \cup {Append(s, c) : s \in shorter, c \in StatusAlphabet}

\* Statuses rendered: the keys of the colour maps, the statuses of the
\* component tests, inherited property names, and short generated strings.
StatusInputs ==
    DOMAIN defaultColors
    \cup DOMAIN customColors
    \cup {<<"u", "n", "k", "n", "o", "w", "n", "_", "s", "t", "a", "t", "u", "s">>}
    \cup ObjectPrototypeKeys
    \cup StringsUpTo(MaxStatusLen)

ColorMapInputs == {<<>>, <<customColors>>}

\* The classes TextInput always applies.
TextInputBase ==
    <<"w-full", "px-3", "py-2", "border", "rounded-lg",
      "focus:outline-none", "focus:ring-2", "focus:ring-blue-500">>

\* TextInput with "if (rows)" in place of "if (rows !== undefined)".
TextInputRowsTruthy(rows, error, className) ==
    LET baseClasses == TextInputBase
                       \o <<IF error = <<TRUE>> THEN "border-red-500" ELSE "border-gray-300">>
                       \o className
    IN  IF rows # <<>> /\ rows[1] # 0
        THEN [rows |-> rows, error |-> error, className |-> className,
              tag |-> "textarea", rowsAttr |-> rows, classes |-> baseClasses]
        ELSE [rows |-> rows, error |-> error, className |-> className,
              tag |-> "input", rowsAttr |-> <<>>, classes |-> baseClasses]

\* TextInput({rows, error, className = ''}): the props with the rendered
\* tag, rows attribute and class list.  rows and error are <<>> when the
\* prop is not supplied.
TextInput(rows, error, className) ==
    LET baseClasses == TextInputBase
                       \o <<IF error = <<TRUE>> THEN "border-red-500" ELSE "border-gray-300">>
                       \o className
    IN  IF rows # <<>>
        THEN [rows |-> rows, error |-> error, className |-> className,
              tag |-> "textarea", rowsAttr |-> rows, classes |-> baseClasses]
        ELSE [rows |-> rows, error |-> error, className |-> className,
              tag |-> "input", rowsAttr |-> <<>>, classes |-> baseClasses]

RowsInputs == {<<>>, <<0>>, <<4>>}

ErrorInputs == {<<>>, <<TRUE>>, <<FALSE>>}

ClassNameInputs == {<<>>, <<"custom-class">>, <<"border-red-500">>, <<"border-gray-300">>}

\* Nothing rendered yet; the router is idle on '/'.
RenderInit ==
    /\ RouterIdle
    /\ badge = <<>>
    /\ textInput = <<>>
    /\ FormIdle /\ UploadIdle /\ ViewIdle /\ ApiIdle

\* render(<StatusBadge status colorMap/>).
RenderStatusBadge ==
    /\ \E status \in StatusInputs, colorMap \in ColorMapInputs :
          badge' = <<StatusBadge(status, colorMap)>>
    /\ UNCHANGED <<nonRenderVars, textInput>>

\* render(<TextInput rows error className/>).
RenderTextInput ==
    /\ \E rows \in RowsInputs, error \in ErrorInputs, className \in ClassNameInputs :
          textInput' = <<TextInput(rows, error, className)>>
    /\ UNCHANGED <<nonRenderVars, badge>>

RenderNext ==
    \/ RenderStatusBadge
    \/ RenderTextInput

RenderSpec == RenderInit /\ [][RenderNext]_vars

\* Membership in a class list.
HasClass(classes, name) == \E i \in 1..Len(classes) : classes[i] = name

\* C18: StatusBadge displays, for any status string, that string with every
\* underscore replaced by a space.
C18_UnderscoresToSpaces ==
    badge # <<>> =>
        LET b == badge[1]
        IN  /\ Len(b.text) = Len(b.status)
            /\ \A i \in 1..Len(b.status) :
                  b.text[i] = (IF b.status[i] = "_" THEN " " ELSE b.status[i])

\* C18 witness: a status with two underscores has been rendered with both
\* replaced.
C18_Witness ==
    /\ badge # <<>>
    /\ badge[1].status = <<"_", "a", "_">>
    /\ badge[1].text = <<" ", "a", " ">>

\* C19: the badge gets the colour classes mapped to its status in the colour
\* map in use (the colorMap prop when supplied, otherwise the built-in
\* defaults); a status that has no entry in that map gets the default
\* 'bg-gray-100 text-gray-800'.
C19_ColourSelection ==
    badge # <<>> =>
        LET b == badge[1]
            colors == IF b.colorMap # <<>> THEN b.colorMap[1] ELSE defaultColors
        IN  b.colorClass = (IF b.status \in DOMAIN colors THEN colors[b.status] ELSE DefaultClass)

\* The element TextInput renders, as a function of the rows prop.
C20_Element ==
    LET t == textInput[1]
    IN  /\ (t.tag = "textarea") <=> (t.rows # <<>>)
        /\ (t.tag = "input") <=> (t.rows = <<>>)
        /\ t.rowsAttr = t.rows

\* C20 as stated: TextInput is a textarea with the given rows exactly when
\* the rows prop is provided and an input otherwise, and it carries the
\* class 'border-red-500' exactly when error is true and 'border-gray-300'
\* otherwise.
C20_AsStated ==
    textInput # <<>> =>
        LET t == textInput[1]
        IN  /\ C20_Element
            /\ HasClass(t.classes, "border-red-500") <=> (t.error = <<TRUE>>)
            /\ HasClass(t.classes, "border-gray-300") <=> (t.error # <<TRUE>>)

\* C20 amended: the element is a textarea with the given rows exactly when
\* the rows prop is provided and an input otherwise; it carries
\* 'border-red-500' exactly when error is true or the className prop names
\* that class, and 'border-gray-300' exactly when error is not true or the
\* className prop names that class.
C20_TextInput ==
    textInput # <<>> =>
        LET t == textInput[1]
        IN  /\ C20_Element
            /\ HasClass(t.classes, "border-red-500") <=>
                  (t.error = <<TRUE>> \/ HasClass(t.className, "border-red-500"))
            /\ HasClass(t.classes, "border-gray-300") <=>
                  (t.error # <<TRUE>> \/ HasClass(t.className, "border-gray-300"))

\* C20 witness: rows = 0 with error set has rendered a textarea with rows 0
\* and the error border.
C20_Witness ==
    /\ textInput # <<>>
    /\ textInput[1].rows = <<0>>
    /\ textInput[1].error = <<TRUE>>
    /\ textInput[1].tag = "textarea"
    /\ textInput[1].rowsAttr = <<0>>
    /\ HasClass(textInput[1].classes, "border-red-500")
    /\ ~HasClass(textInput[1].classes, "border-gray-300")

\* =====================================================================
\* Part 3: entity form pages, detail pages and their mutations
\* =====================================================================
MaxFieldLen == 1

\* Requests one mounted component may have in flight at once.
MaxInFlight == 2

\* Unsettled requests left behind by components that have unmounted.
MaxOrphans == 1

\* Strings over a letter and a blank, up to a length.
RECURSIVE FieldStringsUpTo(_)
FieldStringsUpTo(n) ==
    IF n = 0 THEN {<<>>}
    ELSE LET shorter == FieldStringsUpTo(n - 1)
         IN  shorter \cup {Append(str, c) : str \in shorter, c \in {"a", " "}}

\* What a user can type into a text input.
FieldValues == FieldStringsUpTo(MaxFieldLen)

\* String.prototype.trim.
RECURSIVE trim(_)
trim(str) ==
    IF str = <<>> THEN <<>>
    ELSE IF Head(str) = " " THEN trim(Tail(str))
    ELSE IF str[Len(str)] = " " THEN trim(SubSeq(str, 1, Len(str) - 1))
    ELSE str

\* The form state of each entity form, restricted to the fields rendered
\* in a <FormField required>.
defaultPart == [part_number |-> <<>>, revision |-> <<"A">>, name |-> <<>>]

defaultBom == [bom_number |-> <<>>, name |-> <<>>, parent_part_id |-> <<>>]

defaultChange == [eco_number |-> <<>>, title |-> <<>>, reason |-> <<>>]

defaultDocument == [document_number |-> <<>>, revision |-> <<"A">>, title |-> <<>>]

defaultProject == [project_number |-> <<>>, name |-> <<>>]

defaultRequirement == [requirement_number |-> <<>>, title |-> <<>>]

defaults ==
    [parts |-> defaultPart, boms |-> defaultBom, changes |-> defaultChange,
     documents |-> defaultDocument, projects |-> defaultProject,
     requirements |-> defaultRequirement]

\* The <FormField required> fields that hold a text input.
RequiredTextFields ==
    [parts |-> {"part_number", "revision", "name"},
     boms |-> {"bom_number", "name", "parent_part_id"},
     changes |-> {"eco_number", "title"},
     documents |-> {"document_number", "revision", "title"},
     projects |-> {"project_number", "name"},
     requirements |-> {"requirement_number", "title"}]

\* The inputs rendered with disabled={isEdit}.
DisabledInEdit ==
    [parts |-> {"part_number", "revision"},
     boms |-> {"bom_number", "parent_part_id"},
     changes |-> {"eco_number"},
     documents |-> {"document_number", "revision"},
     projects |-> {"project_number"},
     requirements |-> {"requirement_number"}]

\* Values an input holding cur can hand to handleChange: for a text input
\* cur with one character typed at its end or with its last character
\* deleted, for the ChangeForm reason <select> the placeholder ('') or an
\* option.
InputValues(entity, field, cur) ==
    IF entity = "changes" /\ field = "reason" THEN {<<>>, <<"a">>}
    ELSE {v \in FieldValues :
             \/ (Len(v) = Len(cur) + 1 /\ SubSeq(v, 1, Len(cur)) = cur)
             \/ (Len(cur) = Len(v) + 1 /\ SubSeq(cur, 1, Len(v)) = v)}

\* An errors object is the set of its [key, message] entries whose
\* message is not '' (an entry of '' renders as a missing one does).
ErrorEntry(cond, key, message) ==
    IF cond THEN {[key |-> key, message |-> message]} ELSE {}

\* errors[key], '' standing for undefined as well.
ErrorOf(errors, key) ==
    IF \E en \in errors : en.key = key
    THEN (CHOOSE en \in errors : en.key = key).message
    ELSE ""

validatePart(formData) ==
    ErrorEntry(trim(formData.part_number) = <<>>, "part_number", "Part number is required")
    \cup ErrorEntry(trim(formData.name) = <<>>, "name", "Name is required")

validateBom(formData) ==
    ErrorEntry(trim(formData.bom_number) = <<>>, "bom_number", "BOM number is required")
    \cup ErrorEntry(trim(formData.name) = <<>>, "name", "Name is required")
    \cup ErrorEntry(trim(formData.parent_part_id) = <<>>, "parent_part_id",
                    "Parent part ID is required")

validateChange(formData) ==
    ErrorEntry(trim(formData.eco_number) = <<>>, "eco_number", "ECO number is required")
    \cup ErrorEntry(trim(formData.title) = <<>>, "title", "Title is required")
    \cup ErrorEntry(trim(formData.reason) = <<>>, "reason", "Reason is required")

validateDocument(formData) ==
    ErrorEntry(trim(formData.document_number) = <<>>, "document_number",
               "Document number is required")
    \cup ErrorEntry(trim(formData.title) = <<>>, "title", "Title is required")

validateProject(formData) ==
    ErrorEntry(trim(formData.project_number) = <<>>, "project_number",
               "Project number is required")
    \cup ErrorEntry(trim(formData.name) = <<>>, "name", "Name is required")

validateRequirement(formData) ==
    ErrorEntry(trim(formData.requirement_number) = <<>>, "requirement_number",
               "Requirement number is required")
    \cup ErrorEntry(trim(formData.title) = <<>>, "title", "Title is required")

\* newErrors of the entity's form.
validate(entity, formData) ==
    CASE entity = "parts" -> validatePart(formData)
      [] entity = "boms" -> validateBom(formData)
      [] entity = "changes" -> validateChange(formData)
      [] entity = "documents" -> validateDocument(formData)
      [] entity = "projects" -> validateProject(formData)
      [] entity = "requirements" -> validateRequirement(formData)

\* Statuses a record of each entity can have in the backend.
Statuses ==
    [parts |-> {"draft", "in_review", "released", "obsolete"},
     boms |-> {"draft", "in_review", "released"},
     documents |-> {"draft", "in_review", "released"},
     changes |-> {"draft", "submitted", "in_review"},
     projects |-> {"proposed", "active", "completed"},
     requirements |-> {"draft", "proposed", "approved"}]

canEditPart(status) == status = "draft" \/ status = "in_review"

canRelease(status) == status = "in_review"

canEditBom(status) == status = "draft" \/ status = "in_review"

canEditDocument(status) == status = "draft" \/ status = "in_review"

canEditChange(status) == status = "draft"

canEditProject(status) == status = "proposed" \/ status = "active"

canEditRequirement(status) == status = "draft" \/ status = "proposed"

\* canEdit of the entity's detail page.
canEdit(entity, status) ==
    CASE entity = "parts" -> canEditPart(status)
      [] entity = "boms" -> canEditBom(status)
      [] entity = "documents" -> canEditDocument(status)
      [] entity = "changes" -> canEditChange(status)
      [] entity = "projects" -> canEditProject(status)
      [] entity = "requirements" -> canEditRequirement(status)

\* The record GET /<entity>/r1 returns: its form fields.
StoredRecord(entity) ==
    [f \in DOMAIN defaults[entity] |->
        IF f = "revision" THEN <<"A">> ELSE <<"a">>]

\* ---------------------------------------------------------------------
\* The pages of one entity: list, detail, new and edit
\* ---------------------------------------------------------------------
\* useQuery({queryKey: [entity, id]}) as the detail and form pages read it.
isFetching == qState \in {"fetching", "retrying"}

queryError == qState \in {"error", "retrying"}

isLoading == qState = "fetching" /\ cache = <<>>

\* A refetch of the query starts (mount of a stale query, invalidation,
\* window focus); a fetch already running is not duplicated.
Refetched(q) ==
    CASE q = "idle" -> "fetching"
      [] q = "error" -> "retrying"
      [] OTHER -> q

\* States the query can be in after a page observing it has mounted:
\* data younger than staleTime is not refetched.
MountQueryStates(page) ==
    IF page \in {"detail", "edit"}
    THEN IF qState = "idle" /\ cache # <<>>
         THEN {"idle", "fetching"}
         ELSE {Refetched(qState)}
    ELSE {"idle"}

\* The form page shows its form unless "isEdit && isLoading".
FormShownAt(page, q, c) ==
    \/ page = "new"
    \/ page = "edit" /\ ~(q = "fetching" /\ c = <<>>)

\* The detail page shows the record unless isLoading, error or !part.
DetailShown ==
    /\ fpPage = "detail"
    /\ ~isLoading
    /\ ~queryError
    /\ cache # <<>>

\* The prop the form page hands to its form: data?.data on an edit
\* route, undefined on the new route.
PartProp(page, c) == IF page = "edit" THEN c ELSE <<>>

\* useState({...defaultPart, ...part}) and useState({}) at mount.
MountedForm(part) ==
    <<[formData |-> IF part # <<>> THEN StoredRecord(fpEntity) ELSE defaults[fpEntity],
       errors |-> {}]>>

\* isEdit of the form: !!part?.id.
FormIsEdit == PartProp(fpPage, cache) # <<>>

\* Submit button that is never disabled.
isPendingNever(p) == FALSE

\* createMutation.isPending || updateMutation.isPending.
isPending(p) == "create" \in p \/ "update" \in p

\* releaseMutation.isPending.
releasePending(p) == "release" \in p

\* A request as the callbacks of its mutation see it: which api call it
\* is and the route of the page that sent it.
Request(kind) == [kind |-> kind, route |-> fpPage]

Remove(seq, i) == SubSeq(seq, 1, i - 1) \o SubSeq(seq, i + 1, Len(seq))

\* A page of the entity is opened by a full page load.
FormInit ==
    /\ RouterIdle /\ RenderIdle /\ UploadIdle /\ ViewIdle /\ ApiIdle
    /\ fpEntity \in CrudEntities
    /\ recStatus \in Statuses[fpEntity]
    /\ fpPage \in {"list", "detail", "new", "edit"}
    /\ cache = <<>>
    /\ qState = IF fpPage \in {"detail", "edit"} THEN "fetching" ELSE "idle"
    /\ form = IF fpPage = "new" THEN MountedForm(<<>>) ELSE <<>>
    /\ pending = {}
    /\ inFlight = <<>>
    /\ orphans = <<>>
    /\ effects = <<>>

\* Client-side navigation to a page: the page on screen unmounts, its
\* unsettled requests live on, and the new page mounts.  The record query
\* is kept while a page observes it and dropped once none does.
Arrive(page, q, left) ==
    /\ Len(left) <= MaxOrphans
    /\ fpPage' = page
    /\ qState' = q
    /\ cache' = IF page \in {"detail", "edit"} THEN cache ELSE <<>>
    /\ form' = IF FormShownAt(page, q, cache)
               THEN MountedForm(PartProp(page, cache))
               ELSE <<>>
    /\ pending' = {}
    /\ inFlight' = <<>>
    /\ orphans' = left

\* List page: <Link to="/parts/new">.
NewLink ==
    /\ fpPage = "list"
    /\ Arrive("new", "idle", orphans \o inFlight)
    /\ effects' = <<>>
    /\ UNCHANGED <<fpEntity, recStatus>>
    /\ UNCHANGED nonFormVars

\* List page: the row's <Link to={`/parts/${part.id}`}>.
RowLink ==
    /\ fpPage = "list"
    /\ \E q \in MountQueryStates("detail") : Arrive("detail", q, orphans \o inFlight)
    /\ effects' = <<>>
    /\ UNCHANGED <<fpEntity, recStatus>>
    /\ UNCHANGED nonFormVars

\* Detail page: {canEdit && <Link to={`/parts/${id}/edit`}>}.
EditLink ==
    /\ DetailShown
    /\ canEdit(fpEntity, cache[1])
    /\ \E q \in MountQueryStates("edit") : Arrive("edit", q, orphans \o inFlight)
    /\ effects' = <<>>
    /\ UNCHANGED <<fpEntity, recStatus>>
    /\ UNCHANGED nonFormVars

\* Form: the Cancel button, window.history.back(): the previous entry is
\* the list or the detail page.
Cancel ==
    /\ form # <<>>
    /\ \E page \in {"list", "detail"} :
          \E q \in MountQueryStates(page) : Arrive(page, q, orphans \o inFlight)
    /\ effects' = <<>>
    /\ UNCHANGED <<fpEntity, recStatus>>
    /\ UNCHANGED nonFormVars

\* Form page: DetailPageHeader backLink={isEdit ? `/parts/${id}` : '/parts'}.
BackLink ==
    /\ form # <<>>
    /\ LET page == IF fpPage = "edit" THEN "detail" ELSE "list"
       IN  \E q \in MountQueryStates(page) : Arrive(page, q, orphans \o inFlight)
    /\ effects' = <<>>
    /\ UNCHANGED <<fpEntity, recStatus>>
    /\ UNCHANGED nonFormVars

\* The sidebar link of the entity, from any of its other pages.
ListLink ==
    /\ fpPage # "list"
    /\ Arrive("list", "idle", orphans \o inFlight)
    /\ effects' = <<>>
    /\ UNCHANGED <<fpEntity, recStatus>>
    /\ UNCHANGED nonFormVars

\* The GET of the record answers: the Loading screen of an edit page
\* gives way to the form, mounted with the record as its part prop.
FetchSuccess ==
    /\ isFetching
    /\ cache' = <<recStatus>>
    /\ qState' = "idle"
    /\ form' = IF fpPage = "edit" /\ form = <<>>
               THEN MountedForm(PartProp(fpPage, cache'))
               ELSE form
    /\ effects' = <<>>
    /\ UNCHANGED <<fpEntity, recStatus, fpPage, pending, inFlight, orphans>>
    /\ UNCHANGED nonFormVars

\* The GET of the record fails (after its one retry): isLoading turns
\* false with data undefined, so an edit page mounts its form without a
\* part prop.
FetchError ==
    /\ isFetching
    /\ qState' = "error"
    /\ form' = IF fpPage = "edit" /\ form = <<>>
               THEN MountedForm(PartProp(fpPage, cache))
               ELSE form
    /\ effects' = <<>>
    /\ UNCHANGED <<fpEntity, recStatus, fpPage, cache, pending, inFlight, orphans>>
    /\ UNCHANGED nonFormVars

\* refetchOnWindowFocus of the query while a page observes it.
Refocus ==
    /\ fpPage \in {"detail", "edit"}
    /\ qState \in {"idle", "error"}
    /\ qState' = Refetched(qState)
    /\ effects' = <<>>
    /\ UNCHANGED <<fpEntity, recStatus, fpPage, cache, form, pending, inFlight, orphans>>
    /\ UNCHANGED nonFormVars

\* handleChange(field, value) from an input that is not disabled.
handleChange ==
    /\ form # <<>>
    /\ \E field \in DOMAIN form[1].formData :
          /\ ~(FormIsEdit /\ field \in DisabledInEdit[fpEntity])
          /\ \E value \in InputValues(fpEntity, field, form[1].formData[field]) :
                form' = <<[formData |-> [form[1].formData EXCEPT ![field] = value],
                           errors |-> {en \in form[1].errors : en.key # field}]>>
    /\ effects' = <<>>
    /\ UNCHANGED <<fpEntity, recStatus, fpPage, cache, qState, pending, inFlight, orphans>>
    /\ UNCHANGED nonFormVars

\* handleSubmit: the submit button is pressed while it is enabled.
handleSubmit ==
    /\ form # <<>>
    /\ ~isPending(pending)
    /\ LET formData == form[1].formData
           newErrors == validate(fpEntity, formData)
           kind == IF FormIsEdit THEN "update" ELSE "create"
       IN  IF newErrors # {}
           THEN /\ form' = <<[form[1] EXCEPT !.errors = newErrors]>>
                /\ UNCHANGED <<pending, inFlight>>
           ELSE /\ Len(inFlight) < MaxInFlight
                /\ form' = <<[form[1] EXCEPT !.errors = newErrors]>>
                /\ pending' = pending \cup {kind}
                /\ inFlight' = Append(inFlight, Request(kind))
    /\ effects' = <<>>
    /\ UNCHANGED <<fpEntity, recStatus, fpPage, cache, qState, orphans>>
    /\ UNCHANGED nonFormVars

\* PartDetail: {canRelease && <button onClick={() => releaseMutation.mutate()}
\* disabled={releaseMutation.isPending}>}.
ReleaseClick ==
    /\ fpEntity = "parts"
    /\ DetailShown
    /\ canRelease(cache[1])
    /\ ~releasePending(pending)
    /\ Len(inFlight) < MaxInFlight
    /\ pending' = pending \cup {"release"}
    /\ inFlight' = Append(inFlight, Request("release"))
    /\ effects' = <<>>
    /\ UNCHANGED <<fpEntity, recStatus, fpPage, cache, qState, form, orphans>>
    /\ UNCHANGED nonFormVars

\* What the callbacks of a settled mutation do, in order, after the
\* response that settled it.
Accepted(req) == [op |-> "accepted", what |-> req.kind]

Rejected(req) == [op |-> "rejected", what |-> req.kind]

Invalidate(key) == [op |-> "invalidateQueries", what |-> key]

Navigated(page) == [op |-> "navigate", what |-> page]

\* onSuccess of the form page: navigate(isEdit ? `/parts/${id}` : '/parts').
NavTarget(req) == IF req.route = "edit" THEN "detail" ELSE "list"

\* onSuccess that navigates before it invalidates.
onSuccessNavigateFirst(req) ==
    CASE req.kind = "create" ->
            <<Navigated(NavTarget(req)), Invalidate("list")>>
      [] req.kind = "update" ->
            <<Navigated(NavTarget(req)), Invalidate("list"), Invalidate("record")>>
      [] req.kind = "release" ->
            <<Invalidate("record")>>

\* onSuccess of createMutation, updateMutation and releaseMutation.
onSuccess(req) ==
    CASE req.kind = "create" ->
            <<Invalidate("list"), Navigated(NavTarget(req))>>
      [] req.kind = "update" ->
            <<Invalidate("list"), Invalidate("record"), Navigated(NavTarget(req))>>
      [] req.kind = "release" ->
            <<Invalidate("record")>>

\* pending once request i of reqs has settled.
PendingAfter(reqs, i) ==
    IF \E j \in DOMAIN reqs : j # i /\ reqs[j].kind = reqs[i].kind
    THEN pending
    ELSE pending \ {reqs[i].kind}

\* The server accepts a request; the mutation's onSuccess runs whether or
\* not the component that sent it is still mounted.
MutationSuccess ==
    \E mounted \in BOOLEAN :
       LET reqs == IF mounted THEN inFlight ELSE orphans
       IN  \E i \in DOMAIN reqs :
              LET req == reqs[i]
                  rest == Remove(reqs, i)
                  navigates == req.kind \in {"create", "update"}
                  invalidated == req.kind \in {"update", "release"}
                  target == NavTarget(req)
              IN  /\ effects' = <<Accepted(req)>> \o onSuccess(req)
                  /\ recStatus' = IF req.kind = "release" THEN "released" ELSE recStatus
                  /\ IF navigates /\ target # fpPage
                     THEN \E q \in IF invalidated /\ target = "detail"
                                   THEN {Refetched(qState)}
                                   ELSE MountQueryStates(target) :
                             Arrive(target, q,
                                    IF mounted THEN orphans \o rest ELSE rest \o inFlight)
                     ELSE /\ qState' = IF invalidated /\ fpPage \in {"detail", "edit"}
                                       THEN Refetched(qState)
                                       ELSE qState
                          /\ pending' = IF mounted THEN PendingAfter(reqs, i) ELSE pending
                          /\ inFlight' = IF mounted THEN rest ELSE inFlight
                          /\ orphans' = IF mounted THEN orphans ELSE rest
                          /\ UNCHANGED <<fpPage, form, cache>>
                  /\ UNCHANGED fpEntity
                  /\ UNCHANGED nonFormVars

SubmitError == {[key |-> "submit", message |-> "Request failed"]}

\* The request fails; onError of a form's mutation is
\* setErrors({submit: err.message}), which does nothing once unmounted.
MutationError ==
    \E mounted \in BOOLEAN :
       LET reqs == IF mounted THEN inFlight ELSE orphans
       IN  \E i \in DOMAIN reqs :
              LET req == reqs[i]
                  rest == Remove(reqs, i)
                  ofForm == req.kind \in {"create", "update"}
              IN  /\ effects' = <<Rejected(req)>>
                  /\ form' = IF mounted /\ ofForm /\ form # <<>>
                             THEN <<[form[1] EXCEPT !.errors = SubmitError]>>
                             ELSE form
                  /\ pending' = IF mounted THEN PendingAfter(reqs, i) ELSE pending
                  /\ inFlight' = IF mounted THEN rest ELSE inFlight
                  /\ orphans' = IF mounted THEN orphans ELSE rest
                  /\ UNCHANGED <<fpEntity, recStatus, fpPage, cache, qState>>
                  /\ UNCHANGED nonFormVars

FormNext ==
    \/ NewLink
    \/ RowLink
    \/ EditLink
    \/ Cancel
    \/ BackLink
    \/ ListLink
    \/ FetchSuccess
    \/ FetchError
    \/ Refocus
    \/ handleChange
    \/ handleSubmit
    \/ ReleaseClick
    \/ MutationSuccess
    \/ MutationError

FormSpec == FormInit /\ [][FormNext]_vars

FormTypeOK ==
    /\ fpEntity \in CrudEntities
    /\ recStatus \in Statuses[fpEntity]
    /\ fpPage \in {"list", "detail", "new", "edit"}
    /\ cache = <<>> \/ (Len(cache) = 1 /\ cache[1] \in Statuses[fpEntity])
    /\ qState \in {"idle", "fetching", "error", "retrying"}
    /\ pending \subseteq {"create", "update", "release"}
    /\ Len(inFlight) <= MaxInFlight
    /\ Len(orphans) <= MaxOrphans
    /\ (form # <<>>) = FormShownAt(fpPage, qState, cache)

\* The requests that are sent and not settled, whoever sent them.
Unsettled == {inFlight[i] : i \in DOMAIN inFlight} \cup {orphans[i] : i \in DOMAIN orphans}

\* The mounted component sends a request of this kind in this step.
Sends(kind) ==
    /\ Len(inFlight') = Len(inFlight) + 1
    /\ inFlight'[Len(inFlight')].kind = kind

\* C21: a form page on an edit route submits a valid form as an update of
\* that id and never as a create, whatever the outcome of the initial
\* fetch of the record: every unsettled request that a form on an edit
\* route sent is an update.
C21_EditSubmitsUpdate ==
    \A req \in Unsettled : req.route = "edit" => req.kind = "update"

\* C23: an update request for a record is sent only while the record's
\* status is one its detail page treats as editable.
C23_Step == Sends("update") => canEdit(fpEntity, recStatus)

C23_EditOnlyWhileEditable == [][C23_Step]_vars

\* C27: while a request of the mounted form or of the PartDetail Release
\* button is in flight, its mutation is pending and the control that
\* sends it is disabled, so the component has at most one request in
\* flight.
C27_OneInFlight ==
    /\ Len(inFlight) <= 1
    /\ \A i \in DOMAIN inFlight :
          /\ inFlight[i].kind \in pending
          /\ inFlight[i].kind \in {"create", "update"} => isPending(pending)
          /\ inFlight[i].kind = "release" => releasePending(pending)

C27_Witness ==
    /\ form # <<>>
    /\ Len(inFlight) = 1
    /\ isPending(pending)

\* C28: a form's onSuccess navigates only in the step in which the server
\* accepted the create or update, and after the list query (and, for an
\* update, the record query) was invalidated; a rejected request
\* invalidates nothing and navigates nowhere, and in the form that sent it
\* the submit error is set, the data is as entered and the submit button
\* is enabled again.
C28_Order ==
    /\ \A i \in DOMAIN effects :
          effects[i].op = "navigate" =>
             /\ i = Len(effects)
             /\ effects[1].op = "accepted"
             /\ effects[1].what \in {"create", "update"}
             /\ \E j \in 2..(i - 1) : effects[j] = Invalidate("list")
             /\ effects[1].what = "update" =>
                   \E j \in 2..(i - 1) : effects[j] = Invalidate("record")
    /\ \A i \in DOMAIN effects :
          effects[i].op = "rejected" => Len(effects) = 1

C28_Step ==
    /\ fpPage' # fpPage /\ form # <<>> /\ effects' # <<>> =>
          effects'[1].op = "accepted"
    /\ (/\ form # <<>>
        /\ Len(inFlight') < Len(inFlight)
        /\ effects' # <<>>
        /\ effects'[1].op = "rejected") =>
          /\ fpPage' = fpPage
          /\ form' # <<>>
          /\ form'[1].formData = form[1].formData
          /\ ErrorOf(form'[1].errors, "submit") = "Request failed"
          /\ ~isPending(pending')

C28_SuccessThenNavigate == [][C28_Step]_vars /\ []C28_Order

C28_Witness ==
    /\ fpPage = "detail"
    /\ effects = <<Accepted([kind |-> "update"]), Invalidate("list"),
                   Invalidate("record"), Navigated("detail")>>

\* C29: no form sends a create or update request while one of its
\* required text fields is empty or holds only whitespace.
C29_Step ==
    Sends("create") \/ Sends("update") =>
       \A f \in RequiredTextFields[fpEntity] : trim(form[1].formData[f]) # <<>>

C29_RequiredFields == [][C29_Step]_vars

\* =====================================================================
\* Part 4: CadFileUpload
\* =====================================================================
\* Uploads that may be in flight at once.
MaxUploads == 4

\* The keys of FILE_TYPE_CONFIG.
FileTypes == {"model", "drawing", "spec"}

\* const isUploading = uploading === fileType: the control's label reads
\* 'Uploading' and, the disabled prop not being set, its input is
\* disabled exactly when this holds.
isUploading(fileType) == uploading = <<fileType>>

\* The component is mounted on a part's page with no upload under way.
UploadInit ==
    /\ RouterIdle /\ RenderIdle /\ FormIdle /\ ViewIdle /\ ApiIdle
    /\ uploading = <<>>
    /\ uploadError = <<>>
    /\ uploads = <<>>

\* handleFileSelect(fileType, event) with a file chosen in an input that
\* is not disabled.
handleFileSelect ==
    \E fileType \in FileTypes :
       /\ ~isUploading(fileType)
       /\ Len(uploads) < MaxUploads
       /\ uploading' = <<fileType>>
       /\ uploadError' = <<>>
       /\ uploads' = Append(uploads, fileType)
       /\ UNCHANGED nonUploadVars

\* An upload is accepted: onSuccess (invalidateQueries, setError(null)),
\* then onSettled (setUploading(null)).
UploadSuccess ==
    \E i \in DOMAIN uploads :
       /\ uploads' = Remove(uploads, i)
       /\ uploadError' = <<>>
       /\ uploading' = <<>>
       /\ UNCHANGED nonUploadVars

\* An upload fails: onError (setError(err.message || 'Upload failed')),
\* then onSettled (setUploading(null)).
UploadFailure ==
    \E i \in DOMAIN uploads :
       /\ uploads' = Remove(uploads, i)
       /\ uploadError' = <<"Upload failed">>
       /\ uploading' = <<>>
       /\ UNCHANGED nonUploadVars

UploadNext ==
    \/ handleFileSelect
    \/ UploadSuccess
    \/ UploadFailure

UploadSpec == UploadInit /\ [][UploadNext]_vars

\* C22: while an upload for a file type is in flight that type's control
\* shows 'Uploading' and its input is disabled, and once no upload is in
\* flight no control shows 'Uploading'.
C22_UploadingShown ==
    /\ \A i \in DOMAIN uploads : isUploading(uploads[i])
    /\ uploads = <<>> => \A fileType \in FileTypes : ~isUploading(fileType)

\* =====================================================================
\* Part 5: links and navigate() calls inside the pages
\* =====================================================================
\* A navigation target a page produces: the page element that renders it,
\* the path it leads to, and the page the control is for.
PageLink(from, to, intended) == [from |-> from, to |-> to, intended |-> intended]

\* The list pages' "New ..." links, Bulletins' among them.
NewLinks ==
    {PageLink(ListPage(e), <<e, "new">>, FormPage(e)) : e \in CrudEntities \cup {"bulletins"}}

\* The list pages' row links to a record.
RowLinks ==
    {PageLink(ListPage(e), <<e, id>>, DetailPage(e)) :
        e \in CrudEntities \cup {"bulletins"}, id \in Ids}

\* The detail pages' Edit links.
EditLinks ==
    {PageLink(DetailPage(e), <<e, id, "edit">>, FormPage(e)) : e \in CrudEntities, id \in Ids}

\* PartDetail's Revise button: navigate(`/parts/${id}/revise`).
ReviseLinks ==
    {PageLink(DetailPage("parts"), <<"parts", id, "revise">>, "Revise:parts") : id \in Ids}

\* backLink of the detail and form pages, and the form pages' onSuccess.
BackLinks ==
    {PageLink(DetailPage(e), <<e>>, ListPage(e)) : e \in CrudEntities \cup {"bulletins"}}
    \cup {PageLink(FormPage(e), <<e>>, ListPage(e)) : e \in CrudEntities}
    \cup {PageLink(FormPage(e), <<e, id>>, DetailPage(e)) : e \in CrudEntities, id \in Ids}

\* Links from a record to records of other entities.
CrossLinks ==
    {PageLink(DetailPage("changes"), <<"parts", id>>, DetailPage("parts")) : id \in Ids}
    \cup {PageLink(DetailPage("changes"), <<"boms", id>>, DetailPage("boms")) : id \in Ids}
    \cup {PageLink(DetailPage("requirements"), <<"requirements", id>>,
                   DetailPage("requirements")) : id \in Ids}
    \cup {PageLink(DetailPage("requirements"), <<"projects", id>>,
                   DetailPage("projects")) : id \in Ids}
    \cup {PageLink(DetailPage("boms"), <<"parts", id>>, DetailPage("parts")) : id \in Ids}

PageLinks == NewLinks \cup RowLinks \cup EditLinks \cup ReviseLinks \cup BackLinks \cup CrossLinks

\* A signed-in user has some URL of the app open.
LinkInit ==
    /\ loading = FALSE
    /\ user \in Users
    /\ \E p \in Urls : entries = <<Loc(p, <<>>)>>
    /\ index = 1
    /\ RenderIdle /\ FormIdle /\ UploadIdle /\ ViewIdle /\ ApiIdle

\* Click on a link (or a button that calls navigate) of the page on screen.
PageLinkClick ==
    /\ \E link \in PageLinks :
          /\ CurrentView.page = link.from
          /\ Push(Loc(link.to, <<>>))
    /\ UNCHANGED <<loading, user>>
    /\ UNCHANGED nonRouterVars

LinkNext ==
    \/ PageLinkClick
    \/ LinkClick
    \/ NavigateEffect
    \/ Back

LinkSpec == LinkInit /\ [][LinkNext]_vars

\* C24: following a link or navigate() call of the page on screen leads
\* to a declared route whose element is the page that control is for.
C24_Step ==
    \A link \in PageLinks :
       (/\ CurrentView.page = link.from
        /\ index' = index + 1
        /\ entries'[index'].pathname = link.to)
       => Render(loading', user', entries'[index']).page = link.intended

C24_LinkTargets == [][C24_Step]_vars

\* =====================================================================
\* Part 6: Dashboard and ChangeDetail
\* =====================================================================
\* Most parts the backend holds.
MaxParts == 3

\* The limit the Dashboard passes to partsApi.list: { limit: '1' }.
DashboardLimit == 1

\* GET /parts?limit=n: the body is an array of at most n of the parts the
\* backend holds.
ListParts(total, limit) ==
    [i \in 1..(IF total < limit THEN total ELSE limit) |-> i]

\* The Total Parts figure: {parts?.data?.length ?? '...'}, the '...'
\* placeholder being <<>> and a number n being <<n>>.
TotalParts(query) ==
    IF query.data = <<>> THEN <<>> ELSE <<Len(query.data[1])>>

\* Statuses of a change order: the Changes filter's options and the
\* status the Dashboard asks for.
ChangeStatuses ==
    {"draft", "submitted", "in_review", "approved", "implemented", "rejected", "pending"}

\* The actions of ChangeDetail with Submit also offered once submitted.
ChangeActionsSubmitLate(status) ==
    LET canEditC == status = "draft"
        canSubmit == status = "draft" \/ status = "submitted"
        canStartReview == status = "submitted"
        canApprove == status = "in_review"
    IN  (IF canEditC THEN <<"Edit">> ELSE <<>>)
        \o (IF canSubmit THEN <<"Submit">> ELSE <<>>)
        \o (IF canStartReview THEN <<"Start Review">> ELSE <<>>)
        \o (IF canApprove THEN <<"Approve", "Reject">> ELSE <<>>)

\* The actions prop ChangeDetail hands to DetailPageHeader, in order.
ChangeActions(status) ==
    LET canEditC == status = "draft"
        canSubmit == status = "draft"
        canStartReview == status = "submitted"
        canApprove == status = "in_review"
    IN  (IF canEditC THEN <<"Edit">> ELSE <<>>)
        \o (IF canSubmit THEN <<"Submit">> ELSE <<>>)
        \o (IF canStartReview THEN <<"Start Review">> ELSE <<>>)
        \o (IF canApprove THEN <<"Approve", "Reject">> ELSE <<>>)

\* ChangeDetail for a state of its query: data is <<>> (undefined) or
\* <<the change's status>>.
ChangeDetail(queryLoading, queryFailed, data) ==
    IF queryLoading
    THEN [loading |-> queryLoading, failed |-> queryFailed, data |-> data,
          screen |-> "Loading...", actions |-> <<>>]
    ELSE IF queryFailed \/ data = <<>>
    THEN [loading |-> queryLoading, failed |-> queryFailed, data |-> data,
          screen |-> "Change not found", actions |-> <<>>]
    ELSE [loading |-> queryLoading, failed |-> queryFailed, data |-> data,
          screen |-> "Detail", actions |-> ChangeActions(data[1])]

\* The Dashboard mounts; its parts query has no data yet.
ViewInit ==
    /\ RouterIdle /\ RenderIdle /\ FormIdle /\ UploadIdle /\ ApiIdle
    /\ backendParts \in 0..MaxParts
    /\ partsQuery = [status |-> "pending", data |-> <<>>]
    /\ changeView = <<>>

\* partsApi.list({ limit: '1' }) resolves.
PartsQuerySuccess ==
    /\ partsQuery.status = "pending"
    /\ partsQuery' = [status |-> "success",
                      data |-> <<ListParts(backendParts, DashboardLimit)>>]
    /\ UNCHANGED <<backendParts, changeView>>
    /\ UNCHANGED nonViewVars

\* partsApi.list rejects: data stays undefined.
PartsQueryError ==
    /\ partsQuery.status = "pending"
    /\ partsQuery' = [status |-> "error", data |-> <<>>]
    /\ UNCHANGED <<backendParts, changeView>>
    /\ UNCHANGED nonViewVars

\* ChangeDetail renders for some state of its query.
RenderChangeDetail ==
    /\ \E queryLoading \in BOOLEAN, queryFailed \in BOOLEAN,
          data \in {<<>>} \cup {<<st>> : st \in ChangeStatuses} :
          changeView' = <<ChangeDetail(queryLoading, queryFailed, data)>>
    /\ UNCHANGED <<backendParts, partsQuery>>
    /\ UNCHANGED nonViewVars

ViewNext ==
    \/ PartsQuerySuccess
    \/ PartsQueryError
    \/ RenderChangeDetail

ViewSpec == ViewInit /\ [][ViewNext]_vars

\* C25: once the parts query has succeeded the Total Parts figure is the
\* number of parts the backend holds, and until then it is '...'.
C25_TotalParts ==
    /\ partsQuery.status = "success" => TotalParts(partsQuery) = <<backendParts>>
    /\ partsQuery.status # "success" => TotalParts(partsQuery) = <<>>

Offered(action) ==
    /\ changeView # <<>>
    /\ \E i \in DOMAIN changeView[1].actions : changeView[1].actions[i] = action

\* C30: ChangeDetail offers Edit and Submit exactly when the status is
\* draft, Start Review exactly when it is submitted, Approve and Reject
\* exactly when it is in_review, nothing for any other status, and never
\* actions of two workflow steps together.
C30_WorkflowActions ==
    changeView # <<>> /\ changeView[1].screen = "Detail" =>
       LET status == changeView[1].data[1]
       IN  /\ Offered("Edit") = (status = "draft")
           /\ Offered("Submit") = (status = "draft")
           /\ Offered("Start Review") = (status = "submitted")
           /\ Offered("Approve") = (status = "in_review")
           /\ Offered("Reject") = (status = "in_review")
           /\ status \notin {"draft", "submitted", "in_review"} =>
                 changeView[1].actions = <<>>
           /\ ~(Offered("Submit") /\ Offered("Start Review"))
           /\ ~(Offered("Submit") /\ Offered("Approve"))
           /\ ~(Offered("Edit") /\ Offered("Start Review"))
           /\ ~(Offered("Edit") /\ Offered("Approve"))
           /\ ~(Offered("Start Review") /\ Offered("Approve"))
           /\ ~(Offered("Start Review") /\ Offered("Reject"))

C30_Witness ==
    /\ changeView # <<>>
    /\ changeView[1].screen = "Detail"
    /\ changeView[1].data = <<"in_review">>
    /\ changeView[1].actions = <<"Approve", "Reject">>

\* =====================================================================
\* Part 7: the API client and its auth interceptor
\* =====================================================================
\* What supabase.auth.getSession() resolves to: null or a session; an
\* access_token of '' is falsy.
Sessions == {<<>>} \cup {<<[access_token |-> t]>> : t \in {"", "jwt1", "jwt2"}}

\* The functions of the API client, by exported object.
ApiFunctions ==
    [partsApi |-> {"list", "get", "create", "update", "release"},
     bomsApi |-> {"list", "get", "create", "update", "getItems"},
     projectsApi |-> {"list", "get", "create", "update", "getMilestones", "getDeliverables"},
     requirementsApi |-> {"list", "get", "create", "update"},
     suppliersApi |-> {"listManufacturers", "listVendors", "getPartAML", "getPartAVL"},
     changesApi |-> {"list", "get", "create", "update"},
     documentsApi |-> {"list", "get", "create", "update"},
     complianceApi |-> {"listRegulations", "listCertificates"},
     costingApi |-> {"listVariances"},
     bulletinsApi |-> {"list", "get", "create", "listMaintenanceSchedules", "listUnits"}]

\* The config of a call on the axios instance `api` before the request
\* interceptor runs: the headers axios.create gives the instance,
\* Content-Type overridden by CadFileUpload's upload; no call sets a
\* credential header itself.
ApiCalls ==
    LET DefaultHeaders == [ContentType |-> "application/json",
                           Authorization |-> <<>>, XApiKey |-> <<>>]
    IN  UNION {{[api |-> a, fn |-> f, headers |-> DefaultHeaders] : f \in ApiFunctions[a]} :
                  a \in DOMAIN ApiFunctions}
        \cup {[api |-> "CadFileUpload", fn |-> "upload-cad",
               headers |-> [DefaultHeaders EXCEPT !.ContentType = "multipart/form-data"]]}

\* The interceptor with the API key added whenever one is configured.
InterceptorAlwaysKey(config, sess, API_KEY) ==
    LET hasToken == sess # <<>> /\ sess[1].access_token # ""
        h1 == IF hasToken
              THEN [config.headers EXCEPT
                       !.Authorization = <<<<"Bearer", sess[1].access_token>>>>]
              ELSE config.headers
        h2 == IF API_KEY # ""
              THEN [h1 EXCEPT !.XApiKey = <<API_KEY>>]
              ELSE h1
    IN  [config EXCEPT !.headers = h2]

\* api.interceptors.request.use(async (config) => ...): the session's
\* token if there is one, else the API key if there is one.
Interceptor(config, sess, API_KEY) ==
    LET hasToken == sess # <<>> /\ sess[1].access_token # ""
    IN  IF hasToken
        THEN [config EXCEPT !.headers.Authorization =
                               <<<<"Bearer", sess[1].access_token>>>>]
        ELSE IF API_KEY # ""
        THEN [config EXCEPT !.headers.XApiKey = <<API_KEY>>]
        ELSE config

\* The module is loaded: the build fixed VITE_API_KEY; any session.
ApiInit ==
    /\ RouterIdle /\ RenderIdle /\ FormIdle /\ UploadIdle /\ ViewIdle
    /\ session \in Sessions
    /\ apiKey \in {"", "dev-key"}
    /\ sent = <<>>

\* Sign-in, sign-out or token refresh changes what getSession returns.
SessionChange ==
    /\ \E sess \in Sessions : session' = sess
    /\ UNCHANGED <<apiKey, sent>>
    /\ UNCHANGED nonApiVars

\* A call on `api`: the interceptor awaits the session, sets the header
\* and returns the config, which is what goes out.
SendRequest ==
    /\ \E call \in ApiCalls : sent' = <<Interceptor(call, session, apiKey)>>
    /\ UNCHANGED <<session, apiKey>>
    /\ UNCHANGED nonApiVars

ApiNext ==
    \/ SessionChange
    \/ SendRequest

ApiSpec == ApiInit /\ [][ApiNext]_vars

C26_NeverBoth ==
    sent # <<>> =>
       ~(sent[1].headers.Authorization # <<>> /\ sent[1].headers.XApiKey # <<>>)

C26_Step ==
    sent' # sent =>
       LET h == sent'[1].headers
       IN  IF session # <<>> /\ session[1].access_token # ""
           THEN /\ h.Authorization = <<<<"Bearer", session[1].access_token>>>>
                /\ h.XApiKey = <<>>
           ELSE /\ h.Authorization = <<>>
                /\ (h.XApiKey # <<>>) = (apiKey # "")
                /\ h.XApiKey # <<>> => h.XApiKey = <<apiKey>>

\* C26: every request sent through the API client carries
\* 'Authorization: Bearer <token>' and no X-API-Key when the session has
\* an access token at the time it is sent, otherwise X-API-Key exactly
\* when an API key is configured, and no request carries both.
C26_AuthInterceptor == [][C26_Step]_vars /\ []C26_NeverBoth

C26_Witness ==
    /\ sent # <<>>
    /\ apiKey = "dev-key"
    /\ sent[1].headers.Authorization = <<<<"Bearer", "jwt1">>>>
    /\ sent[1].headers.XApiKey = <<>>

====
